---- MODULE Spec2Model ----
(***************************************************************************)
(* The bounded-depth order book of notebooks/book_replay.py (_MiniBook),   *)
(* the replay driver around it (replay_book), and the log reader of        *)
(* notebooks/qrsdp_reader.py (file header, chunk iteration, manifest).     *)
(*                                                                         *)
(* A book is two arrays of num_levels price levels, slot 1 here being      *)
(* slot 0 of the Python lists.  apply() mutates the book by one event.     *)
(*                                                                         *)
(* Spec: the book under events.  Two kinds of run are modelled:            *)
(*   - driver = "book":   a _MiniBook built from small header parameters   *)
(*     and fed arbitrary events around its window, for ever;               *)
(*   - driver = "replay": replay_book(events) with its default parameters  *)
(*     (10000, 5, 2, 5), over event arrays of at most MaxEvents records    *)
(*     drawn from the records of the documented scenarios.                 *)
(* Either way one round of the loop is two steps: apply() runs on the     *)
(* next record (one action per event type), and the caller takes the top   *)
(* of the book (Sample).                                                   *)
(*                                                                         *)
(* CtorSpec: _MiniBook.__init__ over a range of header parameters.         *)
(* ReplaySpec: two calls of replay_book on the same arguments, their       *)
(*   loops interleaved, each with its own book and its own output arrays.  *)
(* ReaderSpec: one log file, read by read_header, read_day and by a        *)
(*   consumer that advances or drops the generator of iter_chunks.         *)
(* ManifestSpec: one parsed manifest and one call of a manifest function.  *)
(* CascadeSpec: one apply() of a depleting event on a book whose levels    *)
(*   hold any depths, initial_depth 0 included.                            *)
(* ApiSpec: the registry of api/main.py under create, list, get and        *)
(*   delete requests, some of them overlapping, and one websocket stream.  *)
(* StreamSpec: one simulation and several websocket streams whose clients  *)
(*   pause, resume and disconnect; StreamFairSpec adds that the event loop *)
(*   runs every stream that is ready.                                      *)
(***************************************************************************)
EXTENDS Integers, Sequences, FiniteSets

VARIABLES
    num_levels,     \* _MiniBook.num_levels
    initial_depth,  \* _MiniBook.initial_depth
    bids,           \* _MiniBook.bids: sequence of [price, depth]
    asks,           \* _MiniBook.asks
    driver,         \* "book" or "replay"; the other specifications name theirs
    events,         \* replay: the records consumed so far (events[0..i])
    pc,             \* "apply" or "sample": the next step of the loop
    rec,            \* the record apply() ran on, until Sample is done
    steps,          \* iterations of the shift loop run by the apply() of rec
    args,           \* the arguments of _MiniBook() or of replay_book()
    books,          \* the _MiniBook objects of the replay_book calls
    replays,        \* the local variables of each replay_book call
    file,           \* the bytes of a .qrsdp file, by structural unit
    gen,            \* the generator of iter_chunks: where it stands
    handle,         \* the file object f of iter_chunks
    pos,            \* the chunk the file position of f is at
    yielded,        \* the chunks the generator has yielded, in order
    manifest,       \* the dict load_manifest returned
    call,           \* the function called last, with its arguments
    result,         \* what that call returned or raised
    run_bin,        \* whether the generator binary RUN_BIN exists
    simulations,    \* the registry _simulations: sim_id -> simulation
    active_streams, \* the keys of _active_streams (each maps to True)
    creates,        \* the create_simulation requests, by request
    streams         \* the stream_simulation connections, by websocket

bookVars == <<num_levels, initial_depth, bids, asks, driver, events, pc, rec, steps>>
replayVars == <<args, books, replays>>
readerVars == <<file, gen, handle, pos, yielded>>
callVars == <<manifest, call, result>>

apiVars == <<run_bin, simulations, active_streams, creates, streams>>

vars == <<bookVars, replayVars, readerVars, callVars, apiVars>>

-----------------------------------------------------------------------------
(* Program constants *)

ADD_BID == 0
ADD_ASK == 1
CANCEL_BID == 2
CANCEL_ASK == 3
EXEC_BUY == 4
EXEC_SELL == 5

\* range(64) of the shift loops
ShiftCap == 64

\* replay_book's default parameters
DefaultP0 == 10000
DefaultLevels == 5
DefaultSpread == 2
DefaultDepth == 5

(* Bounds of the model *)

MaxLevels == 2      \* levels_per_side of a bare book: 1..MaxLevels
MaxSpread == 3      \* initial_spread_ticks: 1..MaxSpread
MaxInitDepth == 1   \* initial_depth: 1..MaxInitDepth
MaxQty == 1         \* qty of a record: 0..MaxQty
MaxDepth == 1       \* an ADD is applied only while the depth stays <= MaxDepth
MaxTicks == 1       \* best prices stay within DefaultP0 +- MaxTicks
MaxEvents == 5      \* len(events) of a replay

-----------------------------------------------------------------------------
(* Helpers *)

Max(x, y) == IF x >= y THEN x ELSE y

Level(p, d) == [price |-> p, depth |-> d]

Event(t, p, q) == [type |-> t, price |-> p, qty |-> q]

NoEvent == Event(-1, 0, 0)

-----------------------------------------------------------------------------
(* _MiniBook.__init__ *)

InitBestBid(p0, spread) == p0 - (spread \div 2)

\* best_ask placed half a spread above p0, as the bid is below it
InitBestAskHalf(p0, spread) == p0 + (spread \div 2)

InitBestAsk(p0, spread) == p0 + spread - (spread \div 2)

InitBids(p0, L, spread, D) ==
    [k \in 1..L |-> Level(InitBestBid(p0, spread) - (k - 1), D)]

InitAsks(p0, L, spread, D) ==
    [k \in 1..L |-> Level(InitBestAsk(p0, spread) + (k - 1), D)]

-----------------------------------------------------------------------------
(* _bid_index / _ask_index: the slot (0-based) of a price, or -1 *)

\* a lookup that takes the nearest slot for a price outside the window
BidIndexClamped(b, L, price) ==
    LET idx == b[1].price - price
    IN  IF idx < 0 THEN 0 ELSE IF idx >= L THEN L - 1 ELSE idx

BidIndex(b, L, price) ==
    IF Len(b) = 0 THEN -1
    ELSE LET idx == b[1].price - price
         IN  IF 0 <= idx /\ idx < L THEN idx ELSE -1

AskIndex(a, L, price) ==
    IF Len(a) = 0 THEN -1
    ELSE LET idx == price - a[1].price
         IN  IF 0 <= idx /\ idx < L THEN idx ELSE -1

\* the caller's test "0 <= idx < self.num_levels"
InRange(idx, L) == 0 <= idx /\ idx < L

-----------------------------------------------------------------------------
(* _shift_bid / _shift_ask *)

\* a single-level shift that moves the bid the wrong way
ShiftBidStepUp(b, L, D) ==
    IF L <= 1
    THEN [b EXCEPT ![1] = Level(b[1].price + 1, D)]
    ELSE LET copied == [i \in 1..L |-> IF i < L THEN b[i + 1] ELSE b[i]]
         IN  [copied EXCEPT ![L] = Level(copied[L - 1].price - 1, D)]

\* a shift that prices the new far level from slot L-2 as it was before the copy
ShiftAskStepStale(a, L, D) ==
    IF L <= 1
    THEN [a EXCEPT ![1] = Level(a[1].price + 1, D)]
    ELSE LET copied == [i \in 1..L |-> IF i < L THEN a[i + 1] ELSE a[i]]
         IN  [copied EXCEPT ![L] = Level(a[L - 1].price + 1, D)]

\* one iteration of the loop body, before the depth test
ShiftBidStep(b, L, D) ==
    IF L <= 1
    THEN [b EXCEPT ![1] = Level(b[1].price - 1, D)]
    ELSE LET copied == [i \in 1..L |-> IF i < L THEN b[i + 1] ELSE b[i]]
         IN  [copied EXCEPT ![L] = Level(copied[L - 1].price - 1, D)]

ShiftAskStep(a, L, D) ==
    IF L <= 1
    THEN [a EXCEPT ![1] = Level(a[1].price + 1, D)]
    ELSE LET copied == [i \in 1..L |-> IF i < L THEN a[i + 1] ELSE a[i]]
         IN  [copied EXCEPT ![L] = Level(copied[L - 1].price + 1, D)]

\* a loop that breaks after its first step, whatever the depth
ShiftDoneAtOnce(side) == side[1].depth >= 0

\* "if self.bids[0].depth > 0: break"
ShiftDone(side) == side[1].depth > 0

RECURSIVE ShiftBidLoop(_, _, _, _)
ShiftBidLoop(b, L, D, k) ==
    LET s == ShiftBidStep(b, L, D)
    IN  IF ShiftDone(s) \/ k >= ShiftCap
        THEN [side |-> s, steps |-> k]
        ELSE ShiftBidLoop(s, L, D, k + 1)

RECURSIVE ShiftAskLoop(_, _, _, _)
ShiftAskLoop(a, L, D, k) ==
    LET s == ShiftAskStep(a, L, D)
    IN  IF ShiftDone(s) \/ k >= ShiftCap
        THEN [side |-> s, steps |-> k]
        ELSE ShiftAskLoop(s, L, D, k + 1)

ShiftBid(b, L, D) == ShiftBidLoop(b, L, D, 1)

ShiftAsk(a, L, D) == ShiftAskLoop(a, L, D, 1)

-----------------------------------------------------------------------------
(* _improve_bid / _improve_ask *)

\* an improve that overwrites the best level instead of pushing the levels down
ImproveBidOverwrite(b, L, price, qty) == [b EXCEPT ![1] = Level(price, qty)]

ImproveBid(b, L, price, qty) ==
    [i \in 1..L |-> IF i = 1 THEN Level(price, qty) ELSE b[i - 1]]

ImproveAsk(a, L, price, qty) ==
    [i \in 1..L |-> IF i = 1 THEN Level(price, qty) ELSE a[i - 1]]

-----------------------------------------------------------------------------
(* apply(): each branch gives the new sides and the shift iterations run *)

BestBid(b) == IF Len(b) > 0 THEN b[1].price ELSE 0

BestAsk(a) == IF Len(a) > 0 THEN a[1].price ELSE 0

Same(b, a) == [bids |-> b, asks |-> a, steps |-> 0]

\* an improve test that forgets the opposite side
ImprovesBidNoAsk(b, a, price) == price > BestBid(b)

\* an improve test that forgets its own side
ImprovesBidNoBid(b, a, price) == price < BestAsk(a)

\* "price > best_bid and price < best_ask"
ImprovesBid(b, a, price) == price > BestBid(b) /\ price < BestAsk(a)

\* "price < best_ask and price > best_bid"
ImprovesAsk(b, a, price) == price < BestAsk(a) /\ price > BestBid(b)

\* a cancel that does not saturate
CancelDepthPlain(depth, qty) == depth - qty

\* "max(0, depth - qty)"
CancelDepth(depth, qty) == Max(0, depth - qty)

\* "idx == 0 and self.bids[0].depth == 0 and was_nonzero"
CancelShifts(idx, newDepth, wasNonzero) == idx = 0 /\ newDepth = 0 /\ wasNonzero

\* an execution that consumes the record's qty
ExecDepthByQty(depth, qty) == depth - qty

\* "self.asks[0].depth -= 1"
ExecDepth(depth, qty) == depth - 1

ApplyAddBid(b, a, L, D, price, qty) ==
    IF ImprovesBid(b, a, price)
    THEN Same(ImproveBid(b, L, price, qty), a)
    ELSE LET idx == BidIndex(b, L, price)
         IN  IF InRange(idx, L)
             THEN Same([b EXCEPT ![idx + 1].depth = @ + qty], a)
             ELSE Same(b, a)

ApplyAddAsk(b, a, L, D, price, qty) ==
    IF ImprovesAsk(b, a, price)
    THEN Same(b, ImproveAsk(a, L, price, qty))
    ELSE LET idx == AskIndex(a, L, price)
         IN  IF InRange(idx, L)
             THEN Same(b, [a EXCEPT ![idx + 1].depth = @ + qty])
             ELSE Same(b, a)

ApplyCancelBid(b, a, L, D, price, qty) ==
    LET idx == BidIndex(b, L, price)
    IN  IF InRange(idx, L)
        THEN LET wasNonzero == b[idx + 1].depth > 0
                 nb == [b EXCEPT ![idx + 1].depth = CancelDepth(@, qty)]
             IN  IF CancelShifts(idx, nb[1].depth, wasNonzero)
                 THEN LET r == ShiftBid(nb, L, D)
                      IN  [bids |-> r.side, asks |-> a, steps |-> r.steps]
                 ELSE Same(nb, a)
        ELSE Same(b, a)

ApplyCancelAsk(b, a, L, D, price, qty) ==
    LET idx == AskIndex(a, L, price)
    IN  IF InRange(idx, L)
        THEN LET wasNonzero == a[idx + 1].depth > 0
                 na == [a EXCEPT ![idx + 1].depth = CancelDepth(@, qty)]
             IN  IF CancelShifts(idx, na[1].depth, wasNonzero)
                 THEN LET r == ShiftAsk(na, L, D)
                      IN  [bids |-> b, asks |-> r.side, steps |-> r.steps]
                 ELSE Same(b, na)
        ELSE Same(b, a)

\* an EXEC_BUY that takes its lot whether or not the best ask holds depth
ApplyExecBuyUnguarded(b, a, L, D, price, qty) ==
    LET na == [a EXCEPT ![1].depth = ExecDepth(@, qty)]
    IN  IF na[1].depth = 0
        THEN LET r == ShiftAsk(na, L, D)
             IN  [bids |-> b, asks |-> r.side, steps |-> r.steps]
        ELSE Same(b, na)

ApplyExecBuy(b, a, L, D, price, qty) ==
    IF Len(a) > 0 /\ a[1].depth > 0
    THEN LET na == [a EXCEPT ![1].depth = ExecDepth(@, qty)]
         IN  IF na[1].depth = 0
             THEN LET r == ShiftAsk(na, L, D)
                  IN  [bids |-> b, asks |-> r.side, steps |-> r.steps]
             ELSE Same(b, na)
    ELSE Same(b, a)

ApplyExecSell(b, a, L, D, price, qty) ==
    IF Len(b) > 0 /\ b[1].depth > 0
    THEN LET nb == [b EXCEPT ![1].depth = ExecDepth(@, qty)]
         IN  IF nb[1].depth = 0
             THEN LET r == ShiftBid(nb, L, D)
                  IN  [bids |-> r.side, asks |-> a, steps |-> r.steps]
             ELSE Same(nb, a)
    ELSE Same(b, a)

-----------------------------------------------------------------------------
(* The inputs *)

Replaying == driver = "replay"

\* records of the documented scenarios (prices in ticks); the executions
\* carry a price and a qty that apply() has no use for
ScenarioRecords ==
    { Event(EXEC_BUY, 0, 3), Event(EXEC_SELL, 0, 0),
      Event(ADD_BID, 10000, 3), Event(ADD_ASK, 10000, 3),
      Event(CANCEL_BID, 9998, 2), Event(CANCEL_BID, 9999, 5),
      Event(CANCEL_ASK, 10001, 5) }

\* prices offered to a bare book: for a bid record from one tick below the bid
\* window up to the best ask, for an ask record from the best bid up to one
\* tick above the ask window; an execution carries either best price
BookPrices(t) ==
    IF t \in {ADD_BID, CANCEL_BID}
    THEN (BestBid(bids) - num_levels)..BestAsk(asks)
    ELSE IF t \in {ADD_ASK, CANCEL_ASK}
    THEN BestBid(bids)..(BestAsk(asks) + num_levels)
    ELSE {BestBid(bids), BestAsk(asks)}

Records(t) ==
    IF Replaying
    THEN {e \in ScenarioRecords : e.type = t}
    ELSE {Event(t, p, q) : p \in BookPrices(t), q \in 0..MaxQty}

\* the bounds: a replay stops after MaxEvents records; a bare book keeps
\* its best prices near DefaultP0 and its depths at most MaxDepth
Bounded(r) ==
    IF Replaying
    THEN Len(events) < MaxEvents
    ELSE /\ r.bids[1].price >= DefaultP0 - MaxTicks
         /\ r.asks[1].price <= DefaultP0 + MaxTicks
         /\ \A i \in 1..num_levels :
               r.bids[i].depth <= MaxDepth /\ r.asks[i].depth <= MaxDepth

-----------------------------------------------------------------------------
(* The parts of the state a specification does not use stay at rest *)

NoArgs == [p0_ticks |-> 0, levels_per_side |-> 0, initial_spread_ticks |-> 0,
           initial_depth |-> 0, events |-> <<>>]

NoBook == [num_levels |-> 0, initial_depth |-> 0, bids |-> <<>>, asks |-> <<>>]

NoFile == [header_bytes |-> 0, magic |-> "", record_size |-> 0, chunks |-> <<>>]

NoManifest == [keys |-> {}, securities |-> <<>>, sessions |-> <<>>]

NoCall == [op |-> "none"]

NoResult == [raised |-> "", value |-> <<>>]

NoReplay ==
    /\ args = NoArgs
    /\ books = <<>>
    /\ replays = <<>>

NoReader ==
    /\ file = NoFile
    /\ gen = "none"
    /\ handle = "unopened"
    /\ pos = 0
    /\ yielded = <<>>

NoManifestCall ==
    /\ manifest = NoManifest
    /\ call = NoCall
    /\ result = NoResult

NoApi ==
    /\ run_bin = FALSE
    /\ simulations = <<>>
    /\ active_streams = {}
    /\ creates = <<>>
    /\ streams = <<>>

NoBookRun ==
    /\ num_levels = 0
    /\ initial_depth = 0
    /\ bids = <<>>
    /\ asks = <<>>
    /\ events = <<>>
    /\ rec = NoEvent
    /\ steps = 0

-----------------------------------------------------------------------------
(* The state machine *)

Init ==
    /\ \/ /\ driver = "book"
          /\ num_levels \in 1..MaxLevels
          /\ initial_depth \in 1..MaxInitDepth
          /\ \E spread \in 1..MaxSpread :
                /\ bids = InitBids(DefaultP0, num_levels, spread, initial_depth)
                /\ asks = InitAsks(DefaultP0, num_levels, spread, initial_depth)
       \/ /\ driver = "replay"
          /\ num_levels = DefaultLevels
          /\ initial_depth = DefaultDepth
          /\ bids = InitBids(DefaultP0, DefaultLevels, DefaultSpread, DefaultDepth)
          /\ asks = InitAsks(DefaultP0, DefaultLevels, DefaultSpread, DefaultDepth)
    /\ events = <<>>
    /\ pc = "apply"
    /\ rec = NoEvent
    /\ steps = 0
    /\ NoReplay /\ NoReader /\ NoManifestCall /\ NoApi

\* apply() on the next record e, res being what its branch computes
Run(e, res) ==
    /\ \E r \in {res} :
          /\ Bounded(r)
          /\ bids' = r.bids
          /\ asks' = r.asks
          /\ steps' = r.steps
    /\ rec' = e
    /\ events' = IF Replaying THEN Append(events, e) ELSE events
    /\ pc' = "sample"
    /\ UNCHANGED <<num_levels, initial_depth, driver>>
    /\ UNCHANGED <<replayVars, readerVars, callVars, apiVars>>

AddBid ==
    /\ pc = "apply"
    /\ \E e \in Records(ADD_BID) :
          Run(e, ApplyAddBid(bids, asks, num_levels, initial_depth, e.price, e.qty))

AddAsk ==
    /\ pc = "apply"
    /\ \E e \in Records(ADD_ASK) :
          Run(e, ApplyAddAsk(bids, asks, num_levels, initial_depth, e.price, e.qty))

CancelBid ==
    /\ pc = "apply"
    /\ \E e \in Records(CANCEL_BID) :
          Run(e, ApplyCancelBid(bids, asks, num_levels, initial_depth, e.price, e.qty))

CancelAsk ==
    /\ pc = "apply"
    /\ \E e \in Records(CANCEL_ASK) :
          Run(e, ApplyCancelAsk(bids, asks, num_levels, initial_depth, e.price, e.qty))

ExecBuy ==
    /\ pc = "apply"
    /\ \E e \in Records(EXEC_BUY) :
          Run(e, ApplyExecBuy(bids, asks, num_levels, initial_depth, e.price, e.qty))

ExecSell ==
    /\ pc = "apply"
    /\ \E e \in Records(EXEC_SELL) :
          Run(e, ApplyExecSell(bids, asks, num_levels, initial_depth, e.price, e.qty))

\* apply() has returned and the caller reads best_bid and best_ask
Sample ==
    /\ pc = "sample"
    /\ pc' = "apply"
    /\ rec' = NoEvent
    /\ steps' = 0
    /\ UNCHANGED <<num_levels, initial_depth, bids, asks, driver, events>>
    /\ UNCHANGED <<replayVars, readerVars, callVars, apiVars>>

Next ==
    \/ AddBid \/ AddAsk \/ CancelBid \/ CancelAsk \/ ExecBuy \/ ExecSell
    \/ Sample

Spec == Init /\ [][Next]_vars

-----------------------------------------------------------------------------
(* Properties of the book *)

\* the constructor arguments the contract is stated for
ValidBook == num_levels >= 1 /\ initial_depth >= 1

\* a step that is one run of apply()
IsApply == pc = "apply" /\ pc' = "sample"

Slots == 1..num_levels

\* C1: for a book built with levels_per_side >= 1, initial_spread_ticks >= 1
\* and initial_depth >= 1, after every apply() of any event the book is not
\* crossed: bids[0].price < asks[0].price.
NotCrossed == ValidBook => bids[1].price < asks[1].price

\* C1 witness: an ADD_BID has just improved the bid to one tick under the ask.
NotCrossedWitness ==
    /\ pc = "sample" /\ rec.type = ADD_BID
    /\ bids[1] = Level(rec.price, rec.qty)
    /\ asks[1].price = rec.price + 1

\* C2: for such a book, after every apply() both best levels hold depth and
\* no slot has negative depth.
BestLevelsNonEmpty ==
    ValidBook =>
        /\ bids[1].depth > 0
        /\ asks[1].depth > 0
        /\ \A i \in Slots : bids[i].depth >= 0 /\ asks[i].depth >= 0

\* C3: in every reachable state bid prices strictly decrease and ask prices
\* strictly increase with the slot index.
PricesMonotone ==
    \A i \in Slots : i < num_levels =>
        /\ bids[i].price > bids[i + 1].price
        /\ asks[i].price < asks[i + 1].price

\* C3 witness: an ADD_ASK has just improved the ask, leaving a gap of two
\* ticks or more to the old best.
PricesMonotoneWitness ==
    /\ pc = "sample" /\ rec.type = ADD_ASK /\ num_levels >= 2
    /\ asks[1].price = rec.price
    /\ asks[2].price >= rec.price + 2

\* the event's price lies strictly inside the spread (the improve condition)
InsideSpread(price) == bids[1].price < price /\ price < asks[1].price

\* the event's price lies in the bid window [best_bid - L + 1, best_bid]
InBidWindow(price) ==
    bids[1].price - num_levels + 1 <= price /\ price <= bids[1].price

\* the event's price lies in the ask window [best_ask, best_ask + L - 1]
InAskWindow(price) ==
    asks[1].price <= price /\ price <= asks[1].price + num_levels - 1

\* (in the steps of apply(), rec' is the record applied)
\* a bid record that only updates a depth: a CANCEL_BID, or an ADD_BID that
\* does not improve
UpdatesBid ==
    \/ rec'.type = CANCEL_BID
    \/ rec'.type = ADD_BID /\ ~InsideSpread(rec'.price)

UpdatesAsk ==
    \/ rec'.type = CANCEL_ASK
    \/ rec'.type = ADD_ASK /\ ~InsideSpread(rec'.price)

\* C4: whenever a non-improving ADD_BID or a CANCEL_BID changes the depth of
\* a bid slot (no shift running), that slot's price is the event's price, and
\* if some bid slot holds the event's price then that slot is the one
\* updated; the same for ADD_ASK / CANCEL_ASK on the ask slots.
UpdateHitsEventPrice ==
    [][IsApply /\ steps' = 0 =>
        /\ UpdatesBid =>
             \A i \in Slots :
                /\ bids'[i].depth # bids[i].depth => bids[i].price = rec'.price
                /\ (bids[i].price = rec'.price /\ rec'.qty > 0
                        /\ (rec'.type = CANCEL_BID => bids[i].depth > 0))
                      => bids'[i].depth # bids[i].depth
        /\ UpdatesAsk =>
             \A i \in Slots :
                /\ asks'[i].depth # asks[i].depth => asks[i].price = rec'.price
                /\ (asks[i].price = rec'.price /\ rec'.qty > 0
                        /\ (rec'.type = CANCEL_ASK => asks[i].depth > 0))
                      => asks'[i].depth # asks[i].depth
      ]_vars

\* C5: an ADD or CANCEL whose price lies outside its side's window and, for
\* an ADD, not strictly inside the spread, leaves every price and depth on
\* both sides as they were.
OutOfWindowIgnored ==
    [][IsApply =>
        /\ (UpdatesBid /\ ~InBidWindow(rec'.price)) => bids' = bids /\ asks' = asks
        /\ (UpdatesAsk /\ ~InAskWindow(rec'.price)) => bids' = bids /\ asks' = asks
      ]_vars

\* C5 witness: a CANCEL_BID with qty > 0 one tick or more below the bid
\* window has been applied (a cancel never moves the window up, so the price
\* was below the window when it ran).
OutOfWindowWitness ==
    /\ pc = "sample" /\ rec.type = CANCEL_BID /\ rec.qty > 0
    /\ rec.price < bids[1].price - num_levels + 1

Saturated(depth, qty) == IF depth - qty > 0 THEN depth - qty ELSE 0

\* C7: CANCEL_BID at an in-window price sets the matched slot's depth to
\* max(0, depth - qty) and changes no price, unless the slot is slot 0 and
\* its depth was non-zero and is now zero, when shift-bid runs; a cancel on
\* another slot never changes best_bid.  The same for CANCEL_ASK.
CancelSaturates ==
    [][IsApply =>
        /\ (rec'.type = CANCEL_BID /\ InBidWindow(rec'.price)) =>
             LET k  == bids[1].price - rec'.price + 1
                 nd == Saturated(bids[k].depth, rec'.qty)
             IN  /\ asks' = asks
                 /\ IF k = 1 /\ bids[1].depth > 0 /\ nd = 0
                    THEN steps' >= 1
                    ELSE steps' = 0 /\ bids' = [bids EXCEPT ![k].depth = nd]
                 /\ k # 1 => bids'[1].price = bids[1].price
        /\ (rec'.type = CANCEL_ASK /\ InAskWindow(rec'.price)) =>
             LET k  == rec'.price - asks[1].price + 1
                 nd == Saturated(asks[k].depth, rec'.qty)
             IN  /\ bids' = bids
                 /\ IF k = 1 /\ asks[1].depth > 0 /\ nd = 0
                    THEN steps' >= 1
                    ELSE steps' = 0 /\ asks' = [asks EXCEPT ![k].depth = nd]
                 /\ k # 1 => asks'[1].price = asks[1].price
      ]_vars

\* C7 witness: from the default start three CANCEL_BID 9998 qty 2 have taken
\* bids[1] from 5 to 3, 1 and then (saturating) 0, with best_bid still 9999.
CancelWitness ==
    /\ pc = "sample"
    /\ events = <<Event(CANCEL_BID, 9998, 2), Event(CANCEL_BID, 9998, 2),
                  Event(CANCEL_BID, 9998, 2)>>
    /\ bids[2] = Level(9998, 0)
    /\ bids[1] = Level(9999, 5)
    /\ steps = 0

\* C8: an ADD_BID with best_bid < price < best_ask makes the bid side
\* slot[0] = {price, qty} and slot[i] = old slot[i-1] for 1 <= i < L (the old
\* last slot is dropped), leaves the asks alone and makes the spread
\* best_ask - price; the same for ADD_ASK.
ImproveInserts ==
    [][IsApply =>
        /\ (rec'.type = ADD_BID /\ InsideSpread(rec'.price)) =>
             /\ bids'[1] = Level(rec'.price, rec'.qty)
             /\ \A i \in Slots : i >= 2 => bids'[i] = bids[i - 1]
             /\ asks' = asks
             /\ asks'[1].price - bids'[1].price = asks[1].price - rec'.price
        /\ (rec'.type = ADD_ASK /\ InsideSpread(rec'.price)) =>
             /\ asks'[1] = Level(rec'.price, rec'.qty)
             /\ \A i \in Slots : i >= 2 => asks'[i] = asks[i - 1]
             /\ bids' = bids
             /\ asks'[1].price - bids'[1].price = rec'.price - bids[1].price
      ]_vars

\* C8 witness: from the default start ADD_BID 10000 qty 3 has given bids
\* {10000,3}, {9999,5}, ..., {9996,5} and a spread of 1.
ImproveWitness ==
    /\ pc = "sample"
    /\ events = <<Event(ADD_BID, 10000, 3)>>
    /\ bids = [k \in 1..5 |-> IF k = 1 THEN Level(10000, 3) ELSE Level(10001 - k, 5)]
    /\ asks[1].price - bids[1].price = 1

\* the record read empties the best bid (resp. ask) level, which held depth
DepletesBid ==
    /\ bids[1].depth > 0
    /\ \/ rec'.type = EXEC_SELL /\ bids[1].depth = 1
       \/ rec'.type = CANCEL_BID /\ rec'.price = bids[1].price
            /\ rec'.qty >= bids[1].depth

DepletesAsk ==
    /\ asks[1].depth > 0
    /\ \/ rec'.type = EXEC_BUY /\ asks[1].depth = 1
       \/ rec'.type = CANCEL_ASK /\ rec'.price = asks[1].price
            /\ rec'.qty >= asks[1].depth

FiveExecBuy == [k \in 1..5 |-> Event(EXEC_BUY, 0, 3)]

\* C9: with L >= 2, when the best level is depleted and the next level holds
\* depth, exactly one shift step runs: new slot[i] = old slot[i+1] for
\* 0 <= i <= L-2 and new slot[L-1] = {old slot[L-1].price one tick outward,
\* initial_depth}.  Five EXECUTE_BUY from the default start give asks
\* 10002..10006 at depth 5; CANCEL_BID 9999 qty 5 gives bids 9998..9994 at
\* depth 5.
ShiftOnce ==
    [][IsApply =>
        /\ (num_levels >= 2 /\ DepletesBid /\ bids[2].depth > 0) =>
             /\ steps' = 1
             /\ \A i \in Slots : i < num_levels => bids'[i] = bids[i + 1]
             /\ bids'[num_levels] =
                    Level(bids[num_levels].price - 1, initial_depth)
        /\ (num_levels >= 2 /\ DepletesAsk /\ asks[2].depth > 0) =>
             /\ steps' = 1
             /\ \A i \in Slots : i < num_levels => asks'[i] = asks[i + 1]
             /\ asks'[num_levels] =
                    Level(asks[num_levels].price + 1, initial_depth)
        /\ (Replaying /\ events' = FiveExecBuy) =>
             asks' = [k \in 1..5 |-> Level(10001 + k, 5)]
        /\ (Replaying /\ events' = <<Event(CANCEL_BID, 9999, 5)>>) =>
             bids' = [k \in 1..5 |-> Level(9999 - k, 5)]
      ]_vars

\* C9 witness: the fifth EXECUTE_BUY of the default replay has run one shift
\* step and the best ask is {10002, 5}.
ShiftOnceWitness ==
    /\ pc = "sample"
    /\ events = FiveExecBuy
    /\ steps = 1
    /\ asks[1] = Level(10002, 5)

\* C10: with levels_per_side = 1 and initial_depth >= 1, depleting the single
\* level of a side (by cancel or execute) moves its price exactly one tick
\* outward and resets its depth to initial_depth, in a single shift step.
SingleLevelShift ==
    [][IsApply /\ num_levels = 1 /\ initial_depth >= 1 =>
        /\ DepletesBid =>
             /\ bids' = <<Level(bids[1].price - 1, initial_depth)>>
             /\ steps' = 1
        /\ DepletesAsk =>
             /\ asks' = <<Level(asks[1].price + 1, initial_depth)>>
             /\ steps' = 1
      ]_vars

\* C10 witness: a one-level book whose only bid was cancelled away has moved
\* it one tick down in one shift step.
SingleLevelWitness ==
    /\ pc = "sample" /\ num_levels = 1
    /\ rec.type = CANCEL_BID /\ rec.price = bids[1].price + 1
    /\ steps = 1
    /\ bids[1].depth = initial_depth

-----------------------------------------------------------------------------
(* Construction: _MiniBook(p0_ticks, levels_per_side, initial_spread_ticks, *)
(* initial_depth), from the defaults of replay_book or from small values   *)

Args(p0, L, spread, D, evs) ==
    [p0_ticks |-> p0, levels_per_side |-> L, initial_spread_ticks |-> spread,
     initial_depth |-> D, events |-> evs]

DefaultArgs(evs) ==
    Args(DefaultP0, DefaultLevels, DefaultSpread, DefaultDepth, evs)

\* header parameters: p0 up to MaxTicks + 1 ticks from DefaultP0, zero to
\* MaxLevels levels, a spread of zero to MaxSpread ticks, a depth of zero
\* to MaxInitDepth
CtorArgs ==
    {DefaultArgs(<<>>)} \cup
    { Args(p0, L, spread, D, <<>>) :
        p0 \in (DefaultP0 - MaxTicks - 1)..(DefaultP0 + MaxTicks + 1),
        L \in 0..MaxLevels, spread \in 0..MaxSpread, D \in 0..MaxInitDepth }

CtorInit ==
    /\ driver = "ctor"
    /\ pc = "new"
    /\ NoBookRun /\ NoReplay /\ NoReader /\ NoManifestCall /\ NoApi

\* _MiniBook.__init__
Construct ==
    /\ pc = "new"
    /\ \E a \in CtorArgs :
          /\ args' = a
          /\ num_levels' = a.levels_per_side
          /\ initial_depth' = a.initial_depth
          /\ bids' = InitBids(a.p0_ticks, a.levels_per_side,
                              a.initial_spread_ticks, a.initial_depth)
          /\ asks' = InitAsks(a.p0_ticks, a.levels_per_side,
                              a.initial_spread_ticks, a.initial_depth)
    /\ pc' = "apply"
    /\ UNCHANGED <<driver, events, rec, steps, books, replays>>
    /\ UNCHANGED <<readerVars, callVars, apiVars>>

CtorNext == Construct

CtorSpec == CtorInit /\ [][CtorNext]_vars

Constructed == driver = "ctor" /\ pc = "apply"

\* floor(x / 2) of a natural number, by counting
FloorHalf(x) == CHOOSE h \in 0..x : 2 * h <= x /\ x < 2 * (h + 1)

\* C11: a book constructed from (p0, L, initial_spread, initial_depth) has
\* L levels a side, slot k of the bids being {best_bid - k, initial_depth}
\* and slot k of the asks {best_ask + k, initial_depth}, where best_bid is
\* p0 - floor(initial_spread / 2) and best_ask is p0 + initial_spread -
\* floor(initial_spread / 2); so best_ask - best_bid = initial_spread, and
\* the defaults give 9999 / 10001, spread 2, mid 10000.
ConstructionLayout ==
    Constructed =>
        LET half == FloorHalf(args.initial_spread_ticks)
            bb == args.p0_ticks - half
            ba == args.p0_ticks + args.initial_spread_ticks - half
        IN  /\ Len(bids) = args.levels_per_side
            /\ Len(asks) = args.levels_per_side
            /\ ba - bb = args.initial_spread_ticks
            /\ \A k \in 0..(args.levels_per_side - 1) :
                  /\ bids[k + 1] = Level(bb - k, args.initial_depth)
                  /\ asks[k + 1] = Level(ba + k, args.initial_depth)
            /\ args = DefaultArgs(<<>>) =>
                  /\ BestBid(bids) = 9999
                  /\ BestAsk(asks) = 10001
                  /\ BestAsk(asks) - BestBid(bids) = 2
                  /\ BestBid(bids) + BestAsk(asks) = 2 * 10000

\* an odd spread: the extra tick goes to the ask side
ConstructionWitness ==
    /\ Constructed
    /\ args.initial_spread_ticks = 3
    /\ args.levels_per_side = 2
    /\ bids = <<Level(args.p0_ticks - 1, args.initial_depth),
                Level(args.p0_ticks - 2, args.initial_depth)>>
    /\ asks = <<Level(args.p0_ticks + 2, args.initial_depth),
                Level(args.p0_ticks + 3, args.initial_depth)>>

-----------------------------------------------------------------------------
(* replay_book(events, p0_ticks, levels_per_side, initial_spread_ticks,    *)
(* initial_depth), called twice on the same arguments                      *)

MaxReplay == 2      \* len(events) of a call of replay_book: 0..MaxReplay

\* the two calls
Calls == 1..2

\* a row of the events array (the columns replay_book reads)
Row(ts, t, p, q) == [ts_ns |-> ts, type |-> t, price_ticks |-> p, qty |-> q]

\* ts_ns is whatever the file holds: replay_book does not need it ordered
Timestamps == {3, 5}

ReplayRows ==
    { Row(ts, e.type, e.price, e.qty) : ts \in Timestamps, e \in ScenarioRecords }

\* a header of one level a side, one tick of spread and a depth of one
ThinArgs(evs) == Args(DefaultP0, 1, 1, 1, evs)

ReplayArgs ==
    UNION { {DefaultArgs(evs), ThinArgs(evs)} :
              evs \in UNION { [1..n -> ReplayRows] : n \in 0..MaxReplay } }

\* _MiniBook(p0_ticks, levels_per_side, initial_spread_ticks, initial_depth)
NewBook(a) ==
    [num_levels |-> a.levels_per_side,
     initial_depth |-> a.initial_depth,
     bids |-> InitBids(a.p0_ticks, a.levels_per_side,
                       a.initial_spread_ticks, a.initial_depth),
     asks |-> InitAsks(a.p0_ticks, a.levels_per_side,
                       a.initial_spread_ticks, a.initial_depth)]

\* _MiniBook.apply: the branch of the event type; any other type is ignored
Apply(b, a, L, D, type, price, qty) ==
    CASE type = ADD_BID -> ApplyAddBid(b, a, L, D, price, qty)
      [] type = ADD_ASK -> ApplyAddAsk(b, a, L, D, price, qty)
      [] type = CANCEL_BID -> ApplyCancelBid(b, a, L, D, price, qty)
      [] type = CANCEL_ASK -> ApplyCancelAsk(b, a, L, D, price, qty)
      [] type = EXEC_BUY -> ApplyExecBuy(b, a, L, D, price, qty)
      [] type = EXEC_SELL -> ApplyExecSell(b, a, L, D, price, qty)
      [] OTHER -> Same(b, a)

\* book.apply(int(types[i]), int(prices[i]), int(qtys[i]))
BookApply(book, row) ==
    LET r == Apply(book.bids, book.asks, book.num_levels, book.initial_depth,
                   row.type, row.price_ticks, row.qty)
    IN  [book EXCEPT !.bids = r.bids, !.asks = r.asks]

\* a slot of an np.empty array that the loop has not written yet
Unwritten == "unwritten"

\* (bb + ba) / 2, integer quotient
MidTicksFloor(bb, ba) == [whole |-> (bb + ba) \div 2, half |-> 0]

\* (bb + ba) / 2.0 as a float64: whole + half / 2, exact at these magnitudes
MidTicks(bb, ba) == [whole |-> (bb + ba) \div 2, half |-> (bb + ba) % 2]

\* one book for every call
BookOfShared(r) == 1

\* book = _MiniBook(...): the object call r constructs and works on
BookOf(r) == r

NotCalled ==
    [pc |-> "idle", i |-> 0, ts_out |-> <<>>, mid_out |-> <<>>,
     bid_out |-> <<>>, ask_out |-> <<>>, spread_out |-> <<>>]

ReplayInit ==
    /\ driver = "twin"
    /\ pc = "idle"
    /\ NoBookRun /\ NoReader /\ NoManifestCall /\ NoApi
    /\ args \in ReplayArgs
    /\ books = [r \in Calls |-> NoBook]
    /\ replays = [r \in Calls |-> NotCalled]

\* replay_book up to its loop: no events, and it returns five empty arrays;
\* otherwise it copies the timestamps, allocates the outputs and builds a book
ReplayEnter(r) ==
    /\ replays[r].pc = "idle"
    /\ LET n == Len(args.events)
       IN  IF n = 0
           THEN /\ replays' = [replays EXCEPT ![r] = [NotCalled EXCEPT !.pc = "done"]]
                /\ books' = books
           ELSE /\ replays' = [replays EXCEPT ![r] =
                       [pc |-> "loop", i |-> 0,
                        ts_out |-> [k \in 1..n |-> args.events[k].ts_ns],
                        mid_out |-> [k \in 1..n |-> Unwritten],
                        bid_out |-> [k \in 1..n |-> Unwritten],
                        ask_out |-> [k \in 1..n |-> Unwritten],
                        spread_out |-> [k \in 1..n |-> Unwritten]]]
                /\ books' = [books EXCEPT ![BookOf(r)] = NewBook(args)]
    /\ UNCHANGED <<args, bookVars, readerVars, callVars, apiVars>>

\* one iteration of the loop, and the return after the last one
ReplayIter(r) ==
    /\ replays[r].pc = "loop"
    /\ LET i == replays[r].i + 1
           book == BookApply(books[BookOf(r)], args.events[i])
           bb == BestBid(book.bids)
           ba == BestAsk(book.asks)
       IN  /\ books' = [books EXCEPT ![BookOf(r)] = book]
           /\ replays' = [replays EXCEPT ![r] =
                  [@ EXCEPT !.i = i,
                            !.bid_out[i] = bb,
                            !.ask_out[i] = ba,
                            !.mid_out[i] = MidTicks(bb, ba),
                            !.spread_out[i] = ba - bb,
                            !.pc = IF i = Len(args.events) THEN "done" ELSE "loop"]]
    /\ UNCHANGED <<args, bookVars, readerVars, callVars, apiVars>>

ReplayNext == \E r \in Calls : ReplayEnter(r) \/ ReplayIter(r)

ReplaySpec == ReplayInit /\ [][ReplayNext]_vars

\* the book after events[0..k-1] applied in order to a fresh book
RECURSIVE BookAfter(_)
BookAfter(k) ==
    IF k = 0 THEN NewBook(args) ELSE BookApply(BookAfter(k - 1), args.events[k])

Returned(r) == replays[r].pc = "done"

\* C12: replay_book on n events returns five arrays of length n; sample i
\* is the top of the book after events 0..i applied in order to a fresh
\* book: ts_ns[i] is the timestamp of event i, spread_ticks[i] is
\* best_ask[i] - best_bid[i] and twice mid_ticks[i] is best_bid[i] +
\* best_ask[i]; with no events all five arrays are empty.
ReplaySamples ==
    \A r \in Calls :
        Returned(r) =>
            LET o == replays[r]
                n == Len(args.events)
            IN  /\ Len(o.ts_out) = n
                /\ Len(o.mid_out) = n
                /\ Len(o.bid_out) = n
                /\ Len(o.ask_out) = n
                /\ Len(o.spread_out) = n
                /\ n = 0 => /\ o.ts_out = <<>> /\ o.mid_out = <<>>
                            /\ o.bid_out = <<>> /\ o.ask_out = <<>>
                            /\ o.spread_out = <<>>
                /\ \A i \in 1..n :
                      /\ o.ts_out[i] = args.events[i].ts_ns
                      /\ o.bid_out[i] = BestBid(BookAfter(i).bids)
                      /\ o.ask_out[i] = BestAsk(BookAfter(i).asks)
                      /\ o.spread_out[i] = o.ask_out[i] - o.bid_out[i]
                      /\ o.mid_out[i].half \in {0, 1}
                      /\ 2 * o.mid_out[i].whole + o.mid_out[i].half
                            = o.bid_out[i] + o.ask_out[i]

\* an execution, then an ADD_BID inside the spread: the second sample has
\* the improved bid, a spread of 1 and a mid of 10000.5
ReplaySamplesWitness ==
    /\ Returned(1)
    /\ args = DefaultArgs(<<Row(5, EXEC_BUY, 0, 3), Row(3, ADD_BID, 10000, 3)>>)
    /\ replays[1].ts_out = <<5, 3>>
    /\ replays[1].bid_out = <<9999, 10000>>
    /\ replays[1].ask_out = <<10001, 10001>>
    /\ replays[1].spread_out = <<2, 1>>
    /\ replays[1].mid_out = <<[whole |-> 10000, half |-> 0],
                              [whole |-> 10000, half |-> 1]>>

Started(r) == replays[r].pc # "idle" /\ Len(args.events) > 0

-----------------------------------------------------------------------------
(* qrsdp_reader.py: the file header and the chunks of one .qrsdp file      *)

MAGIC == "QRSDPLOG"
FILE_HEADER_SIZE == 64
CHUNK_HEADER_SIZE == 32
RECORD_SIZE == 26

MaxChunks == 3      \* chunk headers in a file: 0..MaxChunks
MaxCompressed == 1  \* compressed_size of a chunk header: 0..MaxCompressed

\* A file is what read(FILE_HEADER_SIZE) finds (how many bytes, and the magic
\* and record_size fields in them) and then its chunks.  A chunk is what
\* read(CHUNK_HEADER_SIZE) finds, the compressed_size of that header, the
\* payload bytes present, and whether the payload decodes (lz4 and
\* np.frombuffer accept it).
Chunk(hb, cs, pb, ok) ==
    [header_bytes |-> hb, compressed_size |-> cs, payload_bytes |-> pb,
     intact |-> ok]

\* chunks written whole, their payload intact or damaged
WholeChunks ==
    { Chunk(CHUNK_HEADER_SIZE, cs, cs, ok) : cs \in 1..MaxCompressed, ok \in BOOLEAN }

\* a chunk header with compressed_size 0
Sentinel == Chunk(CHUNK_HEADER_SIZE, 0, 0, TRUE)

\* what a file cut short ends with: part of a chunk header, or a whole
\* header and part of its payload
CutChunks ==
    {Chunk(CHUNK_HEADER_SIZE - 1, 0, 0, TRUE)} \cup
    { c \in { Chunk(CHUNK_HEADER_SIZE, cs, pb, TRUE) :
                cs \in 1..MaxCompressed, pb \in 0..(MaxCompressed - 1) } :
        c.payload_bytes < c.compressed_size }

\* only the last chunk of a file can be cut
Bodies ==
    UNION { { b \in [1..n -> WholeChunks \cup {Sentinel} \cup CutChunks] :
                \A i \in 1..(n - 1) : b[i] \notin CutChunks } :
            n \in 0..MaxChunks }

\* an empty file; a file cut inside its header, which has no chunks; a
\* file with all 64 header bytes and chunks.  The magic is the right one or
\* another, record_size is 26 or another.
Files ==
    {NoFile} \cup
    { [header_bytes |-> hb, magic |-> m, record_size |-> rs, chunks |-> b] :
        hb \in {FILE_HEADER_SIZE},
        m \in {MAGIC, "QRSDPLOX"},
        rs \in {RECORD_SIZE, RECORD_SIZE + 1},
        b \in Bodies } \cup
    { [header_bytes |-> hb, magic |-> m, record_size |-> rs, chunks |-> <<>>] :
        hb \in {FILE_HEADER_SIZE - 1},
        m \in {MAGIC, "QRSDPLOX"},
        rs \in {RECORD_SIZE, RECORD_SIZE + 1} }

\* f.read(CHUNK_HEADER_SIZE) at chunk p: past the last chunk it reads nothing
ChunkAt(f, p) == IF p <= Len(f.chunks) THEN f.chunks[p] ELSE Chunk(0, 0, 0, TRUE)

\* iter_chunks, the file header: too short returns, a wrong magic raises
HeaderCheck(f) ==
    IF f.header_bytes < FILE_HEADER_SIZE THEN "return"
    ELSE IF f.magic # MAGIC THEN "raise"
    ELSE "ok"

\* the loop body of iter_chunks without the test of compressed_size
ReadChunkNoSentinel(c) ==
    IF c.header_bytes < CHUNK_HEADER_SIZE THEN "break"
    ELSE IF c.payload_bytes < c.compressed_size THEN "break"
    ELSE IF ~c.intact THEN "raise"
    ELSE "yield"

\* iter_chunks, one round of the loop on chunk c
ReadChunk(c) ==
    IF c.header_bytes < CHUNK_HEADER_SIZE THEN "break"
    ELSE IF c.compressed_size = 0 THEN "break"
    ELSE IF c.payload_bytes < c.compressed_size THEN "break"
    ELSE IF ~c.intact THEN "raise"
    ELSE "yield"

\* f left as it is when control leaves the with block
ReleasedLeak(h) == h

\* with open(path, "rb") as f: control leaves the block, f is closed
Released(h) == "closed"

Raise(msg) == [raised |-> msg, value |-> <<>>]

Return(v) == [raised |-> "", value |-> v]

\* read_header(path)
ReadHeaderResult(f) ==
    IF f.header_bytes < FILE_HEADER_SIZE THEN Raise("file too small for header")
    ELSE IF f.magic # MAGIC THEN Raise("bad magic")
    ELSE Return([magic |-> f.magic, record_size |-> f.record_size])

\* list(iter_chunks(path)) from chunk p on, acc being the chunks yielded
RECURSIVE Drain(_, _, _)
Drain(f, p, acc) ==
    LET step == ReadChunk(ChunkAt(f, p))
    IN  IF step = "yield" THEN Drain(f, p + 1, Append(acc, p))
        ELSE IF step = "raise" THEN Raise("decompress")
        ELSE Return(acc)

\* read_day(path) with the first chunk left out of the concatenation
ReadDayResultFromSecond(f) ==
    LET h == HeaderCheck(f)
    IN  IF h = "return" THEN Return(<<>>)
        ELSE IF h = "raise" THEN Raise("bad magic")
        ELSE Drain(f, 2, <<>>)

\* read_day(path): the chunks whose records it concatenates, in order
ReadDayResult(f) ==
    LET h == HeaderCheck(f)
    IN  IF h = "return" THEN Return(<<>>)
        ELSE IF h = "raise" THEN Raise("bad magic")
        ELSE Drain(f, 1, <<>>)

\* iter_chunks(path) has been called: the generator exists, its body has
\* not started
ReaderInit ==
    /\ driver = "reader"
    /\ pc = "idle"
    /\ NoBookRun /\ NoReplay /\ NoManifestCall /\ NoApi
    /\ file \in Files
    /\ gen = "created"
    /\ handle = "unopened"
    /\ pos = 0
    /\ yielded = <<>>

\* next(gen): the body runs to its next yield, to its end or to an error;
\* the first time it opens the file and reads the file header
Advance ==
    /\ gen \in {"created", "suspended"}
    /\ LET p == IF gen = "created" THEN 1 ELSE pos
           h == IF gen = "created" THEN HeaderCheck(file) ELSE "ok"
           step == IF h = "ok" THEN ReadChunk(ChunkAt(file, p)) ELSE h
       IN  IF step = "yield"
           THEN /\ yielded' = Append(yielded, p)
                /\ pos' = p + 1
                /\ gen' = "suspended"
                /\ handle' = "open"
           ELSE /\ yielded' = yielded
                /\ pos' = p
                /\ gen' = IF step = "raise" THEN "raised" ELSE "done"
                /\ handle' = Released("open")
    /\ UNCHANGED <<file, bookVars, replayVars, callVars, apiVars>>

\* the consumer drops the generator, or calls close(): a generator that is
\* suspended at its yield gets GeneratorExit there and leaves the with block
Drop ==
    /\ gen \in {"created", "suspended"}
    /\ gen' = "closed"
    /\ handle' = IF gen = "suspended" THEN Released(handle) ELSE handle
    /\ UNCHANGED <<file, pos, yielded, bookVars, replayVars, callVars, apiVars>>

ReadHeader ==
    /\ call = NoCall
    /\ call' = [op |-> "read_header"]
    /\ result' = ReadHeaderResult(file)
    /\ UNCHANGED <<manifest, bookVars, replayVars, readerVars, apiVars>>

ReadDay ==
    /\ call = NoCall
    /\ call' = [op |-> "read_day"]
    /\ result' = ReadDayResult(file)
    /\ UNCHANGED <<manifest, bookVars, replayVars, readerVars, apiVars>>

ReaderNext == Advance \/ Drop \/ ReadHeader \/ ReadDay

ReaderSpec == ReaderInit /\ [][ReaderNext]_vars

FullHeader == file.header_bytes >= FILE_HEADER_SIZE

\* the generator has been advanced at least once
Advanced == handle # "unopened"

\* C14: a file whose header has a record_size other than 26 makes
\* read_header fail instead of returning the decoded header, and neither
\* iter_chunks nor read_day delivers any record of it.
RecordSizeRejected ==
    (FullHeader /\ file.record_size # RECORD_SIZE) =>
        /\ call.op = "read_header" => result.raised # ""
        /\ call.op = "read_day" => (result.raised # "" \/ Len(result.value) = 0)
        /\ yielded = <<>>

HeaderCallFails ==
    (call.op = "read_header" /\ (~FullHeader \/ file.magic # MAGIC)) =>
        result.raised # ""

\* C15: read_header fails when the file has fewer than 64 bytes or its first
\* 8 bytes are not "QRSDPLOG"; iter_chunks on a magic mismatch (the file has
\* its first 8 bytes, and they are not the magic) fails on the first
\* advance, before any chunk is yielded.
BadMagicFails ==
    /\ HeaderCallFails
    /\ (file.header_bytes >= 8 /\ file.magic # MAGIC /\ Advanced) =>
          (gen = "raised" /\ yielded = <<>>)

\* what iter_chunks does about the file header: with all 64 bytes present a
\* wrong magic raises on the first advance; with fewer than 64 bytes the
\* first advance ends the iteration without an error, whatever the bytes
BadMagicFailsOnFullHeader ==
    /\ HeaderCallFails
    /\ (file.magic # MAGIC /\ FullHeader /\ Advanced) =>
          (gen = "raised" /\ yielded = <<>>)
    /\ (~FullHeader /\ Advanced) => (gen = "done" /\ yielded = <<>>)

ValidHeader == FullHeader /\ file.magic = MAGIC

\* chunk c ends the iteration cleanly
Stops(c) ==
    \/ c.header_bytes < CHUNK_HEADER_SIZE
    \/ c.compressed_size = 0
    \/ c.payload_bytes < c.compressed_size

Damaged(c) == ~Stops(c) /\ ~c.intact

\* the chunks 1 .. k-1, in file order
Before(k) == [i \in 1..(k - 1) |-> i]

IsPrefix(s, t) == Len(s) <= Len(t) /\ \A i \in 1..Len(s) : s[i] = t[i]

FirstStop ==
    CHOOSE k \in 1..(Len(file.chunks) + 1) :
        /\ Stops(ChunkAt(file, k))
        /\ \A j \in 1..(k - 1) : ~Stops(ChunkAt(file, j))

FirstStopOrDamage ==
    CHOOSE k \in 1..(Len(file.chunks) + 1) :
        /\ Stops(ChunkAt(file, k)) \/ Damaged(ChunkAt(file, k))
        /\ \A j \in 1..(k - 1) :
              ~Stops(ChunkAt(file, j)) /\ ~Damaged(ChunkAt(file, j))

\* C16: on a file with a valid header iter_chunks yields, in file order and
\* each once, exactly the chunks before the first chunk header shorter than
\* 32 bytes, chunk header with compressed_size 0 or payload shorter than
\* compressed_size; it then ends without an error and never yields a chunk
\* located after that point.
ChunksUntilStop ==
    ValidHeader =>
        /\ IsPrefix(yielded, Before(FirstStop))
        /\ gen # "raised"
        /\ gen = "done" => yielded = Before(FirstStop)

\* C16, amended: on a file with a valid header iter_chunks yields, in file
\* order and each once, exactly the chunks before the first chunk header
\* shorter than 32 bytes, chunk header with compressed_size 0, payload
\* shorter than compressed_size, or payload that fails to decode; in the
\* first three cases it then ends without an error, in the last it ends
\* with the decoding error; no chunk after that point is ever yielded.
ChunksUntilStopOrDamage ==
    ValidHeader =>
        LET k == FirstStopOrDamage
        IN  /\ IsPrefix(yielded, Before(k))
            /\ gen = "done" =>
                  (yielded = Before(k) /\ Stops(ChunkAt(file, k)))
            /\ gen = "raised" =>
                  (yielded = Before(k) /\ Damaged(ChunkAt(file, k)))

\* a chunk, a zero-sized chunk header, and a chunk that is never yielded
ChunksWitness ==
    /\ ValidHeader
    /\ Len(file.chunks) = 3
    /\ ReadChunk(file.chunks[1]) = "yield"
    /\ file.chunks[2] = Sentinel
    /\ ReadChunk(file.chunks[3]) = "yield"
    /\ gen = "done"
    /\ yielded = <<1>>

\* C17: the file iter_chunks opened is closed however the iteration ends -
\* exhausted, failed on a bad magic or on a payload, or dropped by the
\* consumer after any number of chunks - and it is open only while the
\* generator is suspended between two chunks.
HandleScoped ==
    /\ handle = "open" <=> gen = "suspended"
    /\ gen \in {"done", "raised"} => handle = "closed"
    /\ (gen = "closed" /\ Advanced) => handle = "closed"

\* dropped after the first chunk, with another chunk still to come
HandleWitness ==
    /\ gen = "closed"
    /\ handle = "closed"
    /\ yielded = <<1>>
    /\ ReadChunk(ChunkAt(file, 2)) = "yield"

-----------------------------------------------------------------------------
(* qrsdp_reader.py: the manifest of a run directory                        *)

MaxSecurities == 2  \* entries of "securities": 0..MaxSecurities
MaxSessions == 1    \* entries of a "sessions" list: 0..MaxSessions

\* Optional[str]: None, or a string
None == <<>>

Some(str) == <<str>>

Given(opt) == opt # None

Symbols == {"AAA", "BBB"}

SymbolArgs == {None} \cup {Some(sym) : sym \in Symbols}

\* Dates are strings, here sequences of digits: "10" and "2" in a manifest,
\* and None, "", "1" and "2" as the bounds of a call.
SessionDates == {<<1, 0>>, <<2>>}

DateArgs == {None, Some(<<>>), Some(<<1>>), Some(<<2>>)}

\* a < b on Python strings
RECURSIVE StrLess(_, _)
StrLess(a, b) ==
    IF b = <<>> THEN FALSE
    ELSE IF a = <<>> THEN TRUE
    ELSE IF a[1] # b[1] THEN a[1] < b[1]
    ELSE StrLess(Tail(a), Tail(b))

\* the sessions of list i of the manifest (0: the top-level list), one for
\* each date; "file" names the log of the session, and stands for its records
Sessions(i, dates) ==
    [j \in 1..Len(dates) |-> [date |-> dates[j], file |-> <<i, j>>]]

DateLists == UNION { [1..n -> SessionDates] : n \in 0..MaxSessions }

SecurityLists ==
    UNION { { [i \in 1..n |-> [symbol |-> sy[i], sessions |-> Sessions(i, dl[i])]] :
                sy \in [1..n -> Symbols], dl \in [1..n -> DateLists] } :
            n \in 0..MaxSecurities }

\* a v1.1 manifest, a v1.0 manifest, or a JSON object with neither key
Manifests ==
    { [keys |-> {"securities"}, securities |-> secs, sessions |-> <<>>] :
        secs \in SecurityLists } \cup
    { [keys |-> {"sessions"}, securities |-> <<>>, sessions |-> Sessions(0, d)] :
        d \in DateLists } \cup
    {NoManifest}

\* "key" in manifest
HasKey(m, key) == key \in m.keys

\* manifest_symbols(manifest)
ManifestSymbols(m) ==
    IF HasKey(m, "securities")
    THEN Return([i \in 1..Len(m.securities) |-> m.securities[i].symbol])
    ELSE Return(<<>>)

\* no security is passed over
SkippedNever(symbol, sec) == FALSE

\* _iter_sessions: symbol is not None and sec["symbol"] != symbol
Skipped(symbol, sec) == Given(symbol) /\ sec.symbol # symbol[1]

\* yield sym, session: for each session of a list
Tagged(sym, sessions) ==
    [j \in 1..Len(sessions) |-> [symbol |-> sym, session |-> sessions[j]]]

\* _iter_sessions, the loop over manifest["securities"] from entry i on
RECURSIVE SecuritySessions(_, _, _)
SecuritySessions(secs, symbol, i) ==
    IF i > Len(secs) THEN <<>>
    ELSE (IF Skipped(symbol, secs[i])
          THEN <<>>
          ELSE Tagged(secs[i].symbol, secs[i].sessions))
         \o SecuritySessions(secs, symbol, i + 1)

\* list(_iter_sessions(manifest, symbol))
IterSessions(m, symbol) ==
    IF HasKey(m, "securities") THEN Return(SecuritySessions(m.securities, symbol, 1))
    ELSE IF Given(symbol) THEN Return(<<>>)
    ELSE IF HasKey(m, "sessions") THEN Return(Tagged("", m.sessions))
    ELSE Raise("KeyError: 'sessions'")

\* the truth value of an Optional[str]: None and "" are false
Truthy(opt) == Given(opt) /\ opt[1] # <<>>

\* iter_days / iter_securities: neither continue is taken
Kept(date, start_date, end_date) ==
    /\ ~(Truthy(start_date) /\ StrLess(date, start_date[1]))
    /\ ~(Truthy(end_date) /\ StrLess(end_date[1], date))

\* the sessions the loop of iter_days / iter_securities gets to read_day
KeptSessions(m, start_date, end_date, symbol) ==
    LET s == IterSessions(m, symbol)
    IN  IF s.raised # "" THEN s
        ELSE Return(SelectSeq(s.value,
                    LAMBDA x : Kept(x.session.date, start_date, end_date)))

\* list(iter_days(run_dir, start_date, end_date, symbol)): (date, records)
IterDays(m, start_date, end_date, symbol) ==
    LET k == KeptSessions(m, start_date, end_date, symbol)
    IN  IF k.raised # "" THEN k
        ELSE Return([n \in 1..Len(k.value) |->
                        [date |-> k.value[n].session.date,
                         records |-> k.value[n].session.file]])

\* list(iter_securities(run_dir, start_date, end_date)): (symbol, date, records)
IterSecurities(m, start_date, end_date) ==
    LET k == KeptSessions(m, start_date, end_date, None)
    IN  IF k.raised # "" THEN k
        ELSE Return([n \in 1..Len(k.value) |->
                        [symbol |-> k.value[n].symbol,
                         date |-> k.value[n].session.date,
                         records |-> k.value[n].session.file]])

CallOf(op, symbol, start_date, end_date) ==
    [op |-> op, symbol |-> symbol, start_date |-> start_date, end_date |-> end_date]

\* load_manifest(run_dir) has returned the manifest
ManifestInit ==
    /\ driver = "manifest"
    /\ pc = "idle"
    /\ NoBookRun /\ NoReplay /\ NoReader /\ NoApi
    /\ manifest \in Manifests
    /\ call = NoCall
    /\ result = NoResult

CallManifestSymbols ==
    /\ call = NoCall
    /\ call' = CallOf("manifest_symbols", None, None, None)
    /\ result' = ManifestSymbols(manifest)
    /\ UNCHANGED <<manifest, bookVars, replayVars, readerVars, apiVars>>

CallIterSessions ==
    /\ call = NoCall
    /\ \E symbol \in SymbolArgs :
          /\ call' = CallOf("_iter_sessions", symbol, None, None)
          /\ result' = IterSessions(manifest, symbol)
    /\ UNCHANGED <<manifest, bookVars, replayVars, readerVars, apiVars>>

CallIterDays ==
    /\ call = NoCall
    /\ \E symbol \in SymbolArgs, start_date \in DateArgs, end_date \in DateArgs :
          /\ call' = CallOf("iter_days", symbol, start_date, end_date)
          /\ result' = IterDays(manifest, start_date, end_date, symbol)
    /\ UNCHANGED <<manifest, bookVars, replayVars, readerVars, apiVars>>

CallIterSecurities ==
    /\ call = NoCall
    /\ \E start_date \in DateArgs, end_date \in DateArgs :
          /\ call' = CallOf("iter_securities", None, start_date, end_date)
          /\ result' = IterSecurities(manifest, start_date, end_date)
    /\ UNCHANGED <<manifest, bookVars, replayVars, readerVars, apiVars>>

ManifestNext ==
    \/ CallManifestSymbols \/ CallIterSessions
    \/ CallIterDays \/ CallIterSecurities

ManifestSpec == ManifestInit /\ [][ManifestNext]_vars

IsV11 == HasKey(manifest, "securities")

IsV10 == ~HasKey(manifest, "securities") /\ HasKey(manifest, "sessions")

\* the places <<i, j>> of the sessions of the securities that carry symbol
\* (of all of them when no symbol is given)
Places(symbol) ==
    { p \in (1..Len(manifest.securities)) \X (1..MaxSessions) :
        /\ p[2] <= Len(manifest.securities[p[1]].sessions)
        /\ Given(symbol) => manifest.securities[p[1]].symbol = symbol[1] }

\* place p comes before place q in the manifest
PlaceBefore(p, q) == p[1] < q[1] \/ (p[1] = q[1] /\ p[2] < q[2])

\* C18: on a v1.1 manifest _iter_sessions with a symbol yields exactly the
\* sessions of the securities with that symbol, in manifest order, each
\* tagged with the symbol, and with no symbol every session of every
\* security; on a v1.0 manifest a given symbol yields nothing, no symbol
\* yields every session tagged with the empty string, and manifest_symbols
\* is empty.
SessionsBySymbol ==
    /\ (call.op = "_iter_sessions" /\ IsV11) =>
          LET v == result.value
              secs == manifest.securities
          IN  /\ result.raised = ""
              /\ {v[k].session.file : k \in 1..Len(v)} = Places(call.symbol)
              /\ \A k \in 1..(Len(v) - 1) :
                    PlaceBefore(v[k].session.file, v[k + 1].session.file)
              /\ \A k \in 1..Len(v) :
                    LET p == v[k].session.file
                    IN  /\ v[k].session = secs[p[1]].sessions[p[2]]
                        /\ v[k].symbol = secs[p[1]].symbol
                        /\ Given(call.symbol) => v[k].symbol = call.symbol[1]
    /\ (call.op = "_iter_sessions" /\ IsV10) =>
          /\ result.raised = ""
          /\ Given(call.symbol) => result.value = <<>>
          /\ ~Given(call.symbol) =>
                /\ Len(result.value) = Len(manifest.sessions)
                /\ \A j \in 1..Len(manifest.sessions) :
                      result.value[j] =
                          [symbol |-> "", session |-> manifest.sessions[j]]
    /\ (call.op = "manifest_symbols" /\ IsV10) =>
          (result.raised = "" /\ result.value = <<>>)

\* the second of two securities is the one asked for
SessionsBySymbolWitness ==
    /\ call.op = "_iter_sessions"
    /\ call.symbol = Some("AAA")
    /\ Len(manifest.securities) = 2
    /\ manifest.securities[1].symbol = "BBB"
    /\ Len(manifest.securities[1].sessions) = 1
    /\ manifest.securities[2].symbol = "AAA"
    /\ result.value = <<[symbol |-> "AAA",
                         session |-> [date |-> <<2>>, file |-> <<2, 1>>]]>>

\* a <= b on Python strings
StrLeq(a, b) == a = b \/ StrLess(a, b)

\* start_date <= d <= end_date, a bound that is None being unconstrained
InDateRange(d, start_date, end_date) ==
    /\ Given(start_date) => StrLeq(start_date[1], d)
    /\ Given(end_date) => StrLeq(d, end_date[1])

\* C19: iter_days and iter_securities yield, in manifest order, exactly the
\* selected sessions whose date d has start_date <= d <= end_date as
\* strings, a bound that is absent being unconstrained; with start_date =
\* end_date = d they yield exactly the sessions dated d.
DaysInRange ==
    (call.op \in {"iter_days", "iter_securities"} /\ (IsV11 \/ IsV10)) =>
        LET selected == IterSessions(manifest, call.symbol).value
            wanted == SelectSeq(selected,
                        LAMBDA x : InDateRange(x.session.date,
                                               call.start_date, call.end_date))
            v == result.value
        IN  /\ result.raised = ""
            /\ Len(v) = Len(wanted)
            /\ \A k \in 1..Len(wanted) :
                  /\ v[k].date = wanted[k].session.date
                  /\ v[k].records = wanted[k].session.file
                  /\ call.op = "iter_securities" => v[k].symbol = wanted[k].symbol
            /\ (Given(call.start_date) /\ call.start_date = call.end_date) =>
                  \A k \in 1..Len(v) : v[k].date = call.start_date[1]

\* what the filter does: the claim of C19 with "absent" read as None or ""
DaysInRangeOfNonEmptyBounds ==
    (/\ call.op \in {"iter_days", "iter_securities"}
     /\ call.start_date # Some(<<>>)
     /\ call.end_date # Some(<<>>)) => DaysInRange

\* C20: a manifest with neither "sessions" nor "securities" is an error for
\* every manifest function - manifest_symbols, _iter_sessions with or without
\* a symbol, iter_days, iter_securities - and never gives an empty result.
UnknownSchemaRejected ==
    (~IsV11 /\ ~IsV10 /\ call.op # "none") => result.raised # ""

-----------------------------------------------------------------------------
(* api/main.py: the registry of simulations, its requests and the streams   *)

MaxDays == 2        \* sessions the generator writes for a simulation
DayEvents == 2      \* records in each session file the generator writes

\* the create requests and the websocket connections of a run
Requests == 1..2

Connections == 1..2

\* the sim_id of a create request: uuid4().hex[:12], taken to be fresh, is
\* named by the request that drew it
SimIds == Requests

\* PRESETS[cfg.preset]["model"], over the presets
PresetModels == {"simple", "hlr"}

\* cfg.model: Optional[str], any string
ModelArgs == {None, Some(""), Some("evil")}

\* "cfg.model or preset["model"]"
ResolvedModel(model, presetModel) ==
    IF model # None /\ model[1] # "" THEN model[1] ELSE presetModel

\* "for s in _simulations.values(): if s["symbol"] == symbol and
\* s["status"] == "ready""
HasReady(sims, symbol) ==
    \E id \in DOMAIN sims : sims[id].symbol = symbol /\ sims[id].status = "ready"

\* the checks of create_simulation before it awaits the generator: the
\* status it raises, or 0 when it goes on
CreateCheck(sims, bin, symbol, model, presetModel) ==
    IF HasReady(sims, symbol) THEN 409
    ELSE IF ~bin THEN 503
    ELSE IF ResolvedModel(model, presetModel) \notin {"simple", "hlr"} THEN 400
    ELSE 0

\* "_simulations[sim_id] = {...}"
Registered(sims, id, sim) ==
    [k \in DOMAIN sims \cup {id} |-> IF k = id THEN sim ELSE sims[k]]

\* a delete that leaves the registry as it is
PoppedKept(sims, id) == sims

\* "_simulations.pop(sim_id, None)": the registry afterwards
Popped(sims, id) == [k \in DOMAIN sims \ {id} |-> sims[k]]

IdleCreate == [pc |-> "idle", symbol |-> "", model |-> None, status |-> 0]

IdleStream ==
    [pc |-> "idle", sim_id |-> 0, days |-> 0, n |-> 0, day |-> 0, i |-> 0,
     processed |-> 0, complete |-> FALSE,
     paused |-> FALSE, listening |-> FALSE, connected |-> FALSE]

\* the server has started: no simulation, no request, no connection yet
ApiStart(requests, connections) ==
    /\ driver = "api"
    /\ pc = "idle"
    /\ NoBookRun /\ NoReplay /\ NoReader /\ NoManifestCall
    /\ run_bin \in BOOLEAN
    /\ simulations = <<>>
    /\ active_streams = {}
    /\ creates = [r \in requests |-> IdleCreate]
    /\ streams = [c \in connections |-> IdleStream]

\* several create requests, one websocket client
ApiInit == ApiStart(Requests, {1})

\* POST /api/simulations, up to the await of the generator subprocess
CreateBegin(r) ==
    /\ creates[r].pc = "idle"
    /\ \E symbol \in Symbols, model \in ModelArgs, presetModel \in PresetModels :
          LET code == CreateCheck(simulations, run_bin, symbol, model, presetModel)
          IN  creates' = [creates EXCEPT ![r] =
                  [pc |-> IF code = 0 THEN "awaiting" ELSE "done",
                   symbol |-> symbol, model |-> model, status |-> code]]
    /\ UNCHANGED <<run_bin, simulations, active_streams, streams>>
    /\ UNCHANGED <<bookVars, replayVars, readerVars, callVars>>

\* the subprocess has ended (or timed out): the manifest is read, the
\* simulation is registered and returned
CreateFinish(r) ==
    /\ creates[r].pc = "awaiting"
    /\ \E outcome \in {"ok", "error", "timeout"},
          days \in 1..MaxDays, n \in {DayEvents} :
          IF outcome = "ok"
          THEN /\ simulations' = Registered(simulations, r,
                      [symbol |-> creates[r].symbol, status |-> "ready",
                       days |-> days, n |-> n])
               /\ creates' = [creates EXCEPT ![r].pc = "done", ![r].status = 200]
          ELSE /\ simulations' = simulations
               /\ creates' = [creates EXCEPT ![r].pc = "done",
                      ![r].status = IF outcome = "error" THEN 500 ELSE 504]
    /\ UNCHANGED <<run_bin, active_streams, streams>>
    /\ UNCHANGED <<bookVars, replayVars, readerVars, callVars>>

\* GET /api/simulations
ListSimulations ==
    /\ call' = [op |-> "list", sim_id |-> 0]
    /\ result' = Return(DOMAIN simulations)
    /\ UNCHANGED <<manifest, apiVars, bookVars, replayVars, readerVars>>

\* GET /api/simulations/{sim_id}
GetSimulation(id) ==
    /\ call' = [op |-> "get", sim_id |-> id]
    /\ result' = IF id \in DOMAIN simulations
                 THEN Return(id)
                 ELSE Raise("404")
    /\ UNCHANGED <<manifest, apiVars, bookVars, replayVars, readerVars>>

\* DELETE /api/simulations/{sim_id}
DeleteSimulation(id) ==
    /\ call' = [op |-> "delete", sim_id |-> id]
    /\ active_streams' = active_streams \ {id}
    /\ simulations' = Popped(simulations, id)
    /\ result' = IF id \in DOMAIN simulations
                 THEN Return(id)
                 ELSE Raise("404")
    /\ UNCHANGED <<manifest, run_bin, creates, streams>>
    /\ UNCHANGED <<bookVars, replayVars, readerVars>>

\* "_active_streams.get(sim_id, False)"
Active(id) == id \in active_streams

\* a run directory is there until its simulation is deleted (rmtree)
RunDirExists(id) == id \in DOMAIN simulations

\* "finally: control_task.cancel()" and the handler returns
Closed(st) == [st EXCEPT !.pc = "closed", !.listening = FALSE]

\* "batch = max(1, n // 400)"
Batch(n) == Max(1, n \div 400)

\* "if i % batch == 0 or i == n - 1"
Ticks(i, n) == i % Batch(n) = 0 \/ i = n - 1

\* after the loop over the events of day st.day: the night message when a
\* day follows and the stream is active, else the next day's test (which
\* then breaks) and the test for "complete"
AfterDay(st, act) ==
    IF ~act THEN Closed(st)
    ELSE IF st.day < st.days - 1 THEN [st EXCEPT !.pc = "night_send"]
    ELSE [st EXCEPT !.pc = "complete_send"]

RECURSIVE EventLoop(_, _)
RECURSIVE Applied(_, _)

\* the top of "for i in range(n)" at i = st.i, run up to the next await
\* that suspends
EventLoop(st, act) ==
    IF st.i >= st.n \/ ~act THEN AfterDay(st, act)
    ELSE IF st.paused THEN [st EXCEPT !.pc = "wait"]
    ELSE Applied(st, act)

\* wait_if_paused() has returned: book.apply(), then the tick message or the
\* next event
Applied(st, act) ==
    LET a == [st EXCEPT !.processed = @ + 1]
    IN  IF Ticks(st.i, st.n)
        THEN [a EXCEPT !.pc = "tick_send"]
        ELSE EventLoop([a EXCEPT !.i = @ + 1], act)

\* the top of "for day_idx, sess in enumerate(sessions)": the test of
\* _active_streams, then read_header and read_day of the session file
DayStart(st, act, exists) ==
    IF ~act \/ ~exists THEN Closed(st)
    ELSE EventLoop([st EXCEPT !.i = 0], act)

\* the connection c is left as st; a handler that has returned has run
\* "_active_streams.pop(sim_id, None)"
Settle(c, st) ==
    /\ streams' = [streams EXCEPT ![c] = st]
    /\ active_streams' = IF st.pc = "closed"
                         THEN active_streams \ {st.sim_id}
                         ELSE active_streams
    /\ UNCHANGED <<run_bin, simulations, creates>>
    /\ UNCHANGED <<bookVars, replayVars, readerVars, callVars>>

\* websocket /api/simulations/{sim_id}/stream, up to the send of
\* "playback_init"; total_days and n, read from the files later, are kept
\* with the connection from here on
StreamOpen(c, id) ==
    /\ streams[c].pc = "idle"
    /\ IF id \in DOMAIN simulations /\ simulations[id].status = "ready"
       THEN /\ streams' = [streams EXCEPT ![c] =
                   [IdleStream EXCEPT !.pc = "init_send", !.sim_id = id,
                                      !.days = simulations[id].days,
                                      !.n = simulations[id].n,
                                      !.listening = TRUE, !.connected = TRUE]]
            /\ active_streams' = active_streams \cup {id}
       ELSE /\ streams' = [streams EXCEPT ![c].pc = "refused"]
            /\ active_streams' = active_streams
    /\ UNCHANGED <<run_bin, simulations, creates>>
    /\ UNCHANGED <<bookVars, replayVars, readerVars, callVars>>

\* a send on a websocket whose client has gone raises
SendFails(st) == ~st.connected

\* "playback_init" is sent, the manifest is loaded, the first day starts
SendInit(c) ==
    /\ streams[c].pc = "init_send"
    /\ LET st == streams[c]
       IN  Settle(c, IF SendFails(st) THEN Closed(st)
                     ELSE DayStart([st EXCEPT !.day = 0],
                                   Active(st.sim_id), RunDirExists(st.sim_id)))

\* the pause has been lifted: the event the stream waited on is applied
Resume(c) ==
    /\ streams[c].pc = "wait"
    /\ ~streams[c].paused
    /\ Settle(c, Applied(streams[c], Active(streams[c].sim_id)))

\* the "tick" message is sent and the loop goes on with the next event
SendTick(c) ==
    /\ streams[c].pc = "tick_send"
    /\ LET st == streams[c]
       IN  Settle(c, IF SendFails(st) THEN Closed(st)
                     ELSE EventLoop([st EXCEPT !.i = @ + 1], Active(st.sim_id)))

\* the "night" message is sent
SendNight(c) ==
    /\ streams[c].pc = "night_send"
    /\ LET st == streams[c]
       IN  Settle(c, IF SendFails(st) THEN Closed(st)
                     ELSE [st EXCEPT !.pc = "night_sleep"])

\* "await asyncio.sleep(2.5)" is over and the next day starts
SleepNight(c) ==
    /\ streams[c].pc = "night_sleep"
    /\ LET st == streams[c]
       IN  Settle(c, DayStart([st EXCEPT !.day = @ + 1],
                              Active(st.sim_id), RunDirExists(st.sim_id)))

\* the "complete" message is sent
SendComplete(c) ==
    /\ streams[c].pc = "complete_send"
    /\ LET st == streams[c]
       IN  Settle(c, IF SendFails(st) THEN Closed(st)
                     ELSE Closed([st EXCEPT !.complete = TRUE]))

\* _listen_controls receives a control message of the client
Control(c, ctype) ==
    /\ streams[c].listening /\ streams[c].connected
    /\ streams' = [streams EXCEPT ![c].paused =
                      IF ctype = "pause" THEN TRUE
                      ELSE IF ctype = "resume" THEN FALSE
                      ELSE @]
    /\ UNCHANGED <<run_bin, simulations, active_streams, creates>>
    /\ UNCHANGED <<bookVars, replayVars, readerVars, callVars>>

\* the client goes away: receive_text raises WebSocketDisconnect in
\* _listen_controls, which ends
Disconnect(c) ==
    /\ streams[c].connected /\ streams[c].pc # "closed"
    /\ streams' = [streams EXCEPT ![c].connected = FALSE, ![c].listening = FALSE]
    /\ UNCHANGED <<run_bin, simulations, active_streams, creates>>
    /\ UNCHANGED <<bookVars, replayVars, readerVars, callVars>>

StreamStep(c) ==
    \/ SendInit(c) \/ Resume(c) \/ SendTick(c)
    \/ SendNight(c) \/ SleepNight(c) \/ SendComplete(c)

ApiNext ==
    \/ \E r \in DOMAIN creates : CreateBegin(r) \/ CreateFinish(r)
    \/ ListSimulations
    \/ \E id \in SimIds : GetSimulation(id) \/ DeleteSimulation(id)
    \/ \E c \in DOMAIN streams :
          \/ \E id \in SimIds : StreamOpen(c, id)
          \/ StreamStep(c)
          \/ Disconnect(c)

\* the server with a websocket client that sends no control message
ApiSpec == ApiInit /\ [][ApiNext]_vars

\* one create request, several websocket clients
StreamInit == ApiStart({1}, Connections)

\* the server with clients that also pause, resume and set the speed
StreamNext ==
    \/ ApiNext
    \/ \E c \in DOMAIN streams :
          \E ctype \in {"set_speed", "pause", "resume"} : Control(c, ctype)

StreamSpec == StreamInit /\ [][StreamNext]_vars

\* the event loop runs every task that is ready: a send or a sleep that is
\* awaited completes, a stream whose pause is lifted goes on
StreamFairSpec ==
    StreamSpec /\ \A c \in Connections : WF_vars(StreamStep(c))

-----------------------------------------------------------------------------
(* Properties of the registry *)

\* C21: the registry never holds two simulations with status "ready" and the
\* same symbol, for every interleaving of create and delete requests,
\* creates that overlap while the generator is awaited included.
NoDuplicateReady ==
    \A a, b \in DOMAIN simulations :
        (a # b /\ simulations[a].status = "ready" /\ simulations[b].status = "ready")
            => simulations[a].symbol # simulations[b].symbol

\* (C21, the part that holds) a create request for a symbol that has a ready
\* simulation when the request arrives is rejected with 409 and registers
\* nothing.
DuplicateRejected ==
    [][\A r \in DOMAIN creates :
          (CreateBegin(r) /\ HasReady(simulations, creates'[r].symbol))
              => /\ creates'[r].pc = "done" /\ creates'[r].status = 409
                 /\ simulations' = simulations
      ]_vars

\* the model of a request is given and is neither "simple" nor "hlr"
InvalidModel(model) == model # None /\ model[1] \notin {"simple", "hlr"}

\* C22: a create request whose model is neither "simple" nor "hlr" has been
\* answered 400 as soon as its handler has run, and has registered no
\* simulation, whatever the registry holds and whether or not the generator
\* binary is there.
InvalidModelRejected ==
    \A r \in DOMAIN creates :
        (creates[r].pc # "idle" /\ InvalidModel(creates[r].model))
            => creates[r].status = 400 /\ r \notin DOMAIN simulations

\* (C22, the part that holds) a model that is a non-empty string other than
\* "simple" and "hlr" is never accepted: the request is rejected, with 409,
\* 503 or 400, and registers nothing.
UnknownModelRefused ==
    \A r \in DOMAIN creates :
        (creates[r].pc # "idle" /\ InvalidModel(creates[r].model)
              /\ creates[r].model[1] # "")
            => creates[r].status \in {409, 503, 400} /\ r \notin DOMAIN simulations

\* simulation id has been registered once and has been deleted since
Deleted(id) ==
    id \in DOMAIN creates /\ creates[id].status = 200 /\ id \notin DOMAIN simulations

\* C23: a successful delete of id removes id (and nothing else) from the
\* registry, and id stays out of it; get or delete of an id that is not in
\* the registry returns 404 and leaves the registry and the active-stream
\* table as they were; list returns the ids of the registry, so none that
\* was deleted.
DeleteRemoves ==
    [][\A id \in SimIds :
          /\ (DeleteSimulation(id) /\ id \in DOMAIN simulations)
                => /\ result'.raised = ""
                   /\ DOMAIN simulations' = DOMAIN simulations \ {id}
                   /\ \A k \in DOMAIN simulations' : simulations'[k] = simulations[k]
          /\ ((GetSimulation(id) \/ DeleteSimulation(id)) /\ id \notin DOMAIN simulations)
                => /\ result'.raised = "404"
                   /\ simulations' = simulations
                   /\ active_streams' = active_streams
          /\ Deleted(id) => id \notin DOMAIN simulations'
          /\ (ListSimulations /\ Deleted(id)) => id \notin result'.value
      ]_vars

\* C23 witness: a simulation that was registered and deleted is deleted a
\* second time, which returns 404, while the other simulation is being
\* streamed.
DeleteWitness ==
    /\ call.op = "delete" /\ result.raised = "404"
    /\ Deleted(call.sim_id)
    /\ active_streams # {}
    /\ \E c \in DOMAIN streams : streams[c].pc = "tick_send"

-----------------------------------------------------------------------------
(* More properties of the book *)

\* C24: EXECUTE_BUY when asks[0].depth == 0, and EXECUTE_SELL when
\* bids[0].depth == 0, leaves every slot's price and depth on both sides as
\* it was: no depth goes below zero and no shift runs.
ExecOnEmptyIgnored ==
    [][IsApply =>
        /\ (rec'.type = EXEC_BUY /\ asks[1].depth = 0)
              => bids' = bids /\ asks' = asks /\ steps' = 0
        /\ (rec'.type = EXEC_SELL /\ bids[1].depth = 0)
              => bids' = bids /\ asks' = asks /\ steps' = 0
      ]_vars

\* C24 witness: an EXECUTE_BUY has run on a book whose best ask level is
\* empty (an improving ADD_ASK of qty 0 left it so; an execution that takes
\* the last lot never leaves it empty here, as the shift refills it).
ExecOnEmptyWitness ==
    /\ pc = "sample" /\ rec.type = EXEC_BUY
    /\ asks[1].depth = 0 /\ steps = 0

-----------------------------------------------------------------------------
(* One apply() of a cancel or an execution on a book of any depths, books   *)
(* built with initial_depth 0 included                                      *)

\* the depths of the levels of one side: any, as ADDs and CANCELs behind
\* the best level leave them
DepthsOf(L) == [1..L -> 0..MaxDepth]

CascadeInit ==
    /\ driver = "cascade"
    /\ pc = "apply"
    /\ NoReplay /\ NoReader /\ NoManifestCall /\ NoApi
    /\ num_levels \in 1..(MaxLevels + 1)
    /\ initial_depth \in 0..MaxInitDepth
    /\ \E db \in DepthsOf(num_levels), da \in DepthsOf(num_levels) :
          /\ bids = [k \in 1..num_levels |-> Level(DefaultP0 - k, db[k])]
          /\ asks = [k \in 1..num_levels |-> Level(DefaultP0 + k, da[k])]
    /\ events = <<>>
    /\ rec = NoEvent
    /\ steps = 0

\* apply() of a CANCEL or an EXECUTE at a best price
CascadeApply ==
    /\ pc = "apply"
    /\ \E t \in {CANCEL_BID, CANCEL_ASK, EXEC_BUY, EXEC_SELL},
          price \in {BestBid(bids), BestAsk(asks)}, qty \in 0..MaxQty :
          LET r == Apply(bids, asks, num_levels, initial_depth, t, price, qty)
          IN  /\ bids' = r.bids
              /\ asks' = r.asks
              /\ steps' = r.steps
              /\ rec' = Event(t, price, qty)
    /\ pc' = "done"
    /\ UNCHANGED <<num_levels, initial_depth, driver, events>>
    /\ UNCHANGED <<replayVars, readerVars, callVars, apiVars>>

CascadeNext == CascadeApply

CascadeSpec == CascadeInit /\ [][CascadeNext]_vars

Min(x, y) == IF x <= y THEN x ELSE y

\* the depth of the k-th level behind the best level: a tracked level, or
\* beyond the L tracked levels an implicit level of depth initial_depth,
\* which is what the shift synthesizes
DepthBehind(side, k) ==
    IF k + 1 <= Len(side) THEN side[k + 1].depth ELSE initial_depth

\* the number of consecutive empty levels directly behind the best level,
\* counted up to ShiftCap - 1
ZerosBehind(side) ==
    CHOOSE z \in 0..(ShiftCap - 1) :
        /\ \A k \in 1..z : DepthBehind(side, k) = 0
        /\ z < ShiftCap - 1 => DepthBehind(side, z + 1) > 0

\* the side as the depleting event leaves it, before the cascade
Depleted(side) == [side EXCEPT ![1].depth = 0]

\* the side after k steps of the loop, k >= 1: slot i holds what slot i + k
\* held, or the level synthesized i + k - L ticks beyond the last one
BidAfterSteps(side, k) ==
    [i \in 1..Len(side) |->
        IF i + k <= Len(side) THEN side[i + k]
        ELSE Level(side[Len(side)].price - (i + k - Len(side)), initial_depth)]

AskAfterSteps(side, k) ==
    [i \in 1..Len(side) |->
        IF i + k <= Len(side) THEN side[i + k]
        ELSE Level(side[Len(side)].price + (i + k - Len(side)), initial_depth)]

ShiftsBid == rec'.type \in {CANCEL_BID, EXEC_SELL} /\ steps' >= 1

ShiftsAsk == rec'.type \in {CANCEL_ASK, EXEC_BUY} /\ steps' >= 1

\* the cascade of the step is the loop body run steps' times, it has at
\* most 64 steps, and no step but the last leaves slot[0].depth > 0
CascadeStops ==
    /\ steps' <= ShiftCap
    /\ ShiftsBid =>
          /\ bids' = BidAfterSteps(Depleted(bids), steps')
          /\ \A k \in 1..(steps' - 1) : BidAfterSteps(Depleted(bids), k)[1].depth = 0
          /\ bids'[1].depth > 0 \/ steps' = ShiftCap
    /\ ShiftsAsk =>
          /\ asks' = AskAfterSteps(Depleted(asks), steps')
          /\ \A k \in 1..(steps' - 1) : AskAfterSteps(Depleted(asks), k)[1].depth = 0
          /\ asks'[1].depth > 0 \/ steps' = ShiftCap

\* C25: every shift cascade ends after at most 64 steps and performs no
\* step after the first one that leaves slot[0].depth > 0; the number of
\* steps is one plus the number of consecutive zero-depth levels directly
\* behind the depleted best, capped at 64, for every L and every
\* initial_depth, 0 included (the levels behind the L tracked ones being the
\* implicit levels of depth initial_depth).
CascadeCounts ==
    [][pc = "apply" =>
        /\ CascadeStops
        /\ ShiftsBid => steps' = Min(1 + ZerosBehind(bids), ShiftCap)
        /\ ShiftsAsk => steps' = Min(1 + ZerosBehind(asks), ShiftCap)
      ]_vars

\* C25 witness: an EXECUTE_SELL took the last lot of the best bid of a book
\* of three levels whose two levels behind it were empty, and the cascade
\* ran three steps, up to the first synthesized level.
CascadeWitness ==
    /\ driver = "cascade" /\ pc = "done" /\ rec.type = EXEC_SELL
    /\ num_levels = 3 /\ initial_depth >= 1
    /\ steps = 3
    /\ bids[1] = Level(DefaultP0 - 4, initial_depth)

-----------------------------------------------------------------------------
(* Contiguity and the opposite side, in the runs of Spec *)

ContiguousBids(b) == \A i \in 1..(Len(b) - 1) : b[i].price - b[i + 1].price = 1

ContiguousAsks(a) == \A i \in 1..(Len(a) - 1) : a[i + 1].price - a[i].price = 1

\* C26: in every state reachable from construction by apply() calls, the
\* levels of each side are contiguous: bids[i].price - bids[i+1].price == 1
\* and asks[i+1].price - asks[i].price == 1 for every 0 <= i < L-1.
LevelsContiguous == ContiguousBids(bids) /\ ContiguousAsks(asks)

\* (C26, the part that holds) construction gives contiguous sides, and an
\* apply() that does not improve - a depth update or a shift cascade - keeps
\* a contiguous side contiguous.
ShiftKeepsContiguity ==
    [][IsApply =>
        /\ (ContiguousBids(bids) /\ ~(rec'.type = ADD_BID /\ InsideSpread(rec'.price)))
              => ContiguousBids(bids')
        /\ (ContiguousAsks(asks) /\ ~(rec'.type = ADD_ASK /\ InsideSpread(rec'.price)))
              => ContiguousAsks(asks')
      ]_vars

\* C27: on each shift step of one side of the book, the prices of the
\* opposite side shift by one tick: after a cascade of k steps every price
\* of the opposite side has moved by k ticks.
OppositeSideShifts ==
    [][IsApply =>
        /\ ShiftsBid =>
              \A i \in Slots : asks'[i].price - asks[i].price \in {steps', -steps'}
        /\ ShiftsAsk =>
              \A i \in Slots : bids'[i].price - bids[i].price \in {steps', -steps'}
      ]_vars

\* (C27, what the code does) a shift cascade leaves the opposite side as it
\* was.
OppositeSideUntouched ==
    [][IsApply => (ShiftsBid => asks' = asks) /\ (ShiftsAsk => bids' = bids)]_vars

-----------------------------------------------------------------------------
(* read_day against iter_chunks, in the runs of ReaderSpec.  The records of
   a chunk are identified by the chunk's place in the file, so the
   concatenation of the yielded arrays is the sequence of the yielded
   chunks. *)

\* iter_chunks yields no chunk of the file: fewer than 64 bytes, or a valid
\* header followed by nothing, by a sentinel or by a cut chunk
YieldsNothing(f) ==
    \/ f.header_bytes < FILE_HEADER_SIZE
    \/ f.magic = MAGIC /\ Stops(ChunkAt(f, 1))

\* C28: read_day returns the records of all chunks that iter_chunks yields
\* for the file, concatenated in yield order with nothing added or dropped,
\* and returns an empty record array when iter_chunks yields no chunk
\* (header only, sentinel first, or file shorter than 64 bytes).
ReadDayConcatenates ==
    call.op = "read_day" =>
        /\ gen = "done" => result = Return(yielded)
        /\ gen = "raised" => result.raised # ""
        /\ result.raised = "" => IsPrefix(yielded, result.value)
        /\ YieldsNothing(file) => result = Return(<<>>)

\* read_day has returned and the generator has run to its end on a file
\* with two chunks before the stopping point and a chunk after it
ReadDayWitness ==
    /\ call.op = "read_day"
    /\ gen = "done"
    /\ Len(yielded) = 2
    /\ Len(file.chunks) > 2
    /\ result.value = <<1, 2>>

-----------------------------------------------------------------------------
(* Streams, in the runs of StreamSpec and StreamFairSpec *)

\* the handler of connection c is between its registration in
\* _active_streams and its cleanup
Streaming(c) == streams[c].pc \notin {"idle", "refused", "closed"}

\* the simulation of the stream is deleted, or its client has gone
Abandoned(c) ==
    \/ streams[c].sim_id \notin DOMAIN simulations
    \/ ~streams[c].connected

\* C29: every started stream eventually terminates - reaches its cleanup,
\* which cancels the control listener and removes its _active_streams
\* entry - once its simulation is deleted or its client disconnects, in
\* every playback state including while playback is paused.
StreamsTerminate ==
    \A c \in Connections :
        (Streaming(c) /\ Abandoned(c)) ~> (streams[c].pc = "closed")

\* (C29, the part that holds) an abandoned stream reaches its cleanup or
\* sits in wait_if_paused with playback paused.
StreamsTerminateOrWait ==
    \A c \in Connections :
        (Streaming(c) /\ Abandoned(c)) ~>
            \/ streams[c].pc = "closed"
            \/ streams[c].pc = "wait" /\ streams[c].paused

\* (C29) a stream that is paused when its client goes stays in
\* wait_if_paused: nothing sets the resume event any more.
PausedAndGoneStaysWaiting ==
    [][\A c \in Connections :
          (streams[c].pc = "wait" /\ streams[c].paused /\ ~streams[c].connected)
              => streams'[c] = streams[c]]_vars

\* C30: streams are independent per connection: a stream whose simulation
\* is not deleted and whose own client stays connected processes every
\* event of every day and sends "complete", even when another stream on the
\* same sim_id starts, finishes or disconnects concurrently.
StreamsIndependent ==
    \A c \in Connections :
        (/\ streams[c].pc = "closed"
         /\ streams[c].connected
         /\ streams[c].sim_id \in DOMAIN simulations)
            => (/\ streams[c].complete
                /\ streams[c].processed = streams[c].days * streams[c].n)

\* (C30, the part that holds) a stream that is alone on its connection set
\* runs to "complete" when it ends connected with its simulation in place.
LoneStreamCompletes ==
    (/\ streams[1].pc = "closed"
     /\ streams[1].connected
     /\ streams[1].sim_id \in DOMAIN simulations
     /\ \A c \in Connections \ {1} : streams[c].pc = "idle")
        => (/\ streams[1].complete
            /\ streams[1].processed = streams[1].days * streams[1].n)

====
